---------------------------- MODULE Spec2Model ----------------------------
(***************************************************************************)
(* A model of accessor-rs: the escaped-text scanner, the accessor parser,  *)
(* the string interpolator (src/src/parser.rs, string_interpolator.rs) and *)
(* the path-schema validator (src/src/validation.rs).                      *)
(*                                                                         *)
(* Text is a sequence of Unicode scalar values (code points).  A           *)
(* LocatedSpan is the pair (s, p): the whole original input s and the      *)
(* number p of characters that precede the current position.               *)
(***************************************************************************)
EXTENDS Integers, Sequences, FiniteSets, TLC

VARIABLES input, op, ctx, at, res, schema, vres, ires, pair, dist

vars == <<input, op, ctx, at, res, schema, vres, ires, pair, dist>>

----------------------------------------------------------------------------
(* Characters, by code point.                                              *)

NUL == 0
NL == 10
QUOTE == 34
DOLLAR == 36
PLUS == 43
MINUS == 45
DOT == 46
ZERO == 48
ONE == 49
NINE == 57
UA == 65
UF == 70
LBRACK == 91
BSLASH == 92
RBRACK == 93
LA == 97
LB == 98
LF == 102
LN == 110
LR == 114
LT == 116
LU == 117
UD == 68
EIGHT == 56
LBRACE == 123
RBRACE == 125
EACUTE == 233
CR == 13
TAB == 9

RESERVED_TOKEN == {LBRACE, RBRACE, LBRACK, RBRACK, DOT, DOLLAR, QUOTE}
RESERVED_RAW_LITERAL == {QUOTE}

\* is_separator, as the set of characters it accepts
is_separator == {DOT, LBRACK, RBRACE}

\* the stop predicates of the quoted key and of the interpolator's literal text
is_quote == {QUOTE}
is_dollar == {DOLLAR}

----------------------------------------------------------------------------
(* Text helpers: what str and nom_locate compute.                          *)

Max(S) == CHOOSE x \in S : \A y \in S : y <= x

\* the characters of s at offsets [p, q)
Sub(s, p, q) == SubSeq(s, p + 1, q)

\* the UTF-8 width of a character
Utf8Len(c) == IF c < 128 THEN 1 ELSE IF c < 2048 THEN 2 ELSE IF c < 65536 THEN 3 ELSE 4

RECURSIVE ByteLen(_)
ByteLen(t) == IF t = <<>> THEN 0 ELSE Utf8Len(Head(t)) + ByteLen(Tail(t))

\* fragment[..n].chars().count(): the characters held by the first n bytes at p
CharsInBytes(s, p, n) == CHOOSE k \in 0..(Len(s) - p) : ByteLen(Sub(s, p, p + k)) = n

\* LocatedSpan::get_utf8_column: 1 + the characters between the last line
\* feed before the position and the position
get_utf8_column(s, p) ==
    LET nl == {j \in 1..p : s[j] = NL}
    IN  IF nl = {} THEN p + 1 ELSE p - Max(nl) + 1

\* the offset of the first occurrence of character c at or after p, or -1
FindChar(s, p, c) ==
    LET hits == {j \in (p + 1)..Len(s) : s[j] = c}
    IN  IF hits = {} THEN -1 ELSE (CHOOSE j \in hits : \A k \in hits : j <= k) - 1

----------------------------------------------------------------------------
(* Results: Ok((rest, value)) or Err(Err::Error | Err::Failure).           *)

Ok(rest, val) == [ok |-> TRUE, rest |-> rest, val |-> val]

Error(kind, ch, start, end) ==
    [ok |-> FALSE, tag |-> "Error", kind |-> kind, ch |-> ch, start |-> start, end |-> end]

Failure(kind, ch, start, end) ==
    [ok |-> FALSE, tag |-> "Failure", kind |-> kind, ch |-> ch, start |-> start, end |-> end]

\* AccessorParserError::from_error_kind, as nom's own parsers raise it
from_error_kind(s, p, kind) ==
    Error(kind, NUL, get_utf8_column(s, p), get_utf8_column(s, p) + 1)

\* an alt that never tries its second parser
alt_first(r1, r2) == r1

\* nom's alt over two parsers: the second is tried only after a recoverable
\* error of the first, and then its result (or its error) is the result
alt(r1, r2) == IF r1.ok \/ r1.tag = "Failure" THEN r1 ELSE r2

----------------------------------------------------------------------------
(* Numbers.                                                                *)

MAX_CODE_POINT == 1114111
SURROGATE_FIRST == 55296
SURROGATE_LAST == 57343

\* char::to_digit(16), -1 when the character is no hexadecimal digit
HexVal(c) ==
    IF c >= ZERO /\ c <= NINE THEN c - ZERO
    ELSE IF c >= LA /\ c <= LF THEN c - LA + 10
    ELSE IF c >= UA /\ c <= UF THEN c - UA + 10
    ELSE -1

DecVal(c) == IF c >= ZERO /\ c <= NINE THEN c - ZERO ELSE -1

\* the digits of t in the radix, most significant first; the value saturates
\* one past cap, -1 on a character that is no digit
RECURSIVE Digits(_, _, _, _)
Digits(t, radix, acc, cap) ==
    IF t = <<>> THEN acc
    ELSE LET d == IF radix = 16 THEN HexVal(Head(t)) ELSE DecVal(Head(t))
         IN  IF d < 0 THEN -1
             ELSE Digits(Tail(t), radix,
                         IF acc * radix + d > cap THEN cap + 1 ELSE acc * radix + d, cap)

\* core::num from_str_radix for an unsigned type: an empty text and a lone
\* sign are errors, one leading "+" is accepted, "-" is no digit
from_str_radix(t, radix, cap) ==
    IF t = <<>> THEN -1
    ELSE IF Len(t) = 1 /\ Head(t) \in {PLUS, MINUS} THEN -1
    ELSE IF Head(t) = PLUS THEN Digits(Tail(t), radix, 0, cap)
    ELSE Digits(t, radix, 0, cap)

\* char::from_u32
is_scalar(n) == n <= MAX_CODE_POINT /\ ~(n >= SURROGATE_FIRST /\ n <= SURROGATE_LAST)


\* usize::MAX is 2^64 - 1; a decimal text of the model has far fewer than 19
\* digits, so its value is kept exactly below this saturation point
USIZE_SAT == 999999999

parse_usize(t) == from_str_radix(t, 10, USIZE_SAT)

----------------------------------------------------------------------------
(* The escaped-text scanner.                                               *)

\* (A result that is read more than once is bound as the parameter of a local
\* operator, LET then(r) == ... IN then(call): the call is written once.)

take_unicode(s, p) ==
    IF ~(p < Len(s) /\ s[p + 1] = LBRACE)
    THEN Failure("InvalidUnicode.MissingOpeningBracket", NUL,
                 get_utf8_column(s, p) - 1, get_utf8_column(s, p) - 1 + 1)
    ELSE LET decode(q, close, span_start) ==
                 IF close = -1
                 THEN Failure("InvalidUnicode.MissingClosingBracket", NUL,
                              span_start, span_start + (Len(s) - q))
                 ELSE LET check(unicode_code_point, bytes, n) ==
                              IF bytes < 2 \/ bytes > 8
                              THEN Failure("InvalidUnicode.InvalidCodeLength", NUL,
                                           span_start, span_start + Len(unicode_code_point))
                              ELSE IF n < 0
                              THEN Failure("InvalidUnicode.InvalidHexadecimal", NUL,
                                           span_start, span_start + Len(unicode_code_point))
                              ELSE IF ~is_scalar(n)
                              THEN Failure("InvalidUnicode.InvalidCodePoint", NUL,
                                           span_start, span_start + Len(unicode_code_point))
                              ELSE Ok(close + 1, n)
                      IN  check(Sub(s, q, close), ByteLen(Sub(s, q, close)),
                                from_str_radix(Sub(s, q, close), 16, MAX_CODE_POINT))
         IN  decode(p + 1, FindChar(s, p + 1, RBRACE), get_utf8_column(s, p + 1) - 1)

\* take_escaped_char with "\n" left as the letter n
take_escaped_char_letter(s, p, reserved_token) ==
    IF ~(p < Len(s) /\ s[p + 1] = BSLASH) THEN from_error_kind(s, p, "Unknown.Tag")
    ELSE IF p + 1 >= Len(s) THEN from_error_kind(s, p + 1, "Unknown.Eof")
    ELSE LET match(ch, rest) ==
                 IF ch = LU THEN take_unicode(s, rest)
                 ELSE IF ch = LT THEN Ok(rest, TAB)
                 ELSE IF ch = LR THEN Ok(rest, CR)
                 ELSE IF ch = BSLASH THEN Ok(rest, BSLASH)
                 ELSE IF ch \in reserved_token \cup {LN} THEN Ok(rest, ch)
                 ELSE Failure("InvalidEscapeCharacter", ch,
                              get_utf8_column(s, p) - 1, get_utf8_column(s, rest) - 1)
         IN  match(s[p + 2], p + 2)

\* take_escaped_char with every reserved token escapable in every context
take_escaped_char_any_token(s, p, reserved_token) ==
    IF ~(p < Len(s) /\ s[p + 1] = BSLASH) THEN from_error_kind(s, p, "Unknown.Tag")
    ELSE IF p + 1 >= Len(s) THEN from_error_kind(s, p + 1, "Unknown.Eof")
    ELSE LET match(ch, rest) ==
                 IF ch = LU THEN take_unicode(s, rest)
                 ELSE IF ch = LN THEN Ok(rest, NL)
                 ELSE IF ch = LT THEN Ok(rest, TAB)
                 ELSE IF ch = LR THEN Ok(rest, CR)
                 ELSE IF ch = BSLASH THEN Ok(rest, BSLASH)
                 ELSE IF ch \in RESERVED_TOKEN THEN Ok(rest, ch)
                 ELSE Failure("InvalidEscapeCharacter", ch,
                              get_utf8_column(s, p) - 1, get_utf8_column(s, rest) - 1)
         IN  match(s[p + 2], p + 2)

take_escaped_char(s, p, reserved_token) ==
    IF ~(p < Len(s) /\ s[p + 1] = BSLASH) THEN from_error_kind(s, p, "Unknown.Tag")
    ELSE IF p + 1 >= Len(s) THEN from_error_kind(s, p + 1, "Unknown.Eof")
    ELSE LET match(ch, rest) ==
                 IF ch = LU THEN take_unicode(s, rest)
                 ELSE IF ch = LN THEN Ok(rest, NL)
                 ELSE IF ch = LT THEN Ok(rest, TAB)
                 ELSE IF ch = LR THEN Ok(rest, CR)
                 ELSE IF ch = BSLASH THEN Ok(rest, BSLASH)
                 ELSE IF ch \in reserved_token THEN Ok(rest, ch)
                 ELSE Failure("InvalidEscapeCharacter", ch,
                              get_utf8_column(s, p) - 1, get_utf8_column(s, rest) - 1)
         IN  match(s[p + 2], p + 2)

take_char(s, p, reserved_token) ==
    IF p >= Len(s) THEN from_error_kind(s, p, "Unknown.Eof")
    ELSE IF s[p + 1] \in reserved_token
    THEN Failure("InvalidCharacter", s[p + 1],
                 get_utf8_column(s, p) - 1, get_utf8_column(s, p) - 1 + 1)
    ELSE Ok(p + 1, s[p + 1])

\* the loop of take_string_with_escape_until, buf being the text decoded so far
RECURSIVE scan_loop(_, _, _, _, _)
scan_loop(s, p, buf, cond, reserved_token) ==
    IF p >= Len(s) \/ s[p + 1] \in cond THEN Ok(p, buf)
    ELSE LET then(r) ==
                 IF r.ok THEN scan_loop(s, r.rest, Append(buf, r.val), cond, reserved_token)
                 ELSE r
         IN  then(alt(take_escaped_char(s, p, reserved_token), take_char(s, p, reserved_token)))

take_string_with_escape_until(s, p, cond, reserved_token) ==
    scan_loop(s, p, <<>>, cond, reserved_token)

----------------------------------------------------------------------------
(* The accessor parser.                                                    *)

StringKey(text) == [kind |-> "String", text |-> text, index |-> 0]
NumericKey(index) == [kind |-> "Numeric", text |-> <<>>, index |-> index]

find_next_separator(s, p) ==
    LET then(r) == IF r.ok THEN ByteLen(Sub(s, p, r.rest)) ELSE ByteLen(Sub(s, p, Len(s)))
    IN  then(take_string_with_escape_until(s, p, is_separator, RESERVED_TOKEN))

\* the recoverable error of a key that lacks its prefix token
missing_prefix(s, p) ==
    Error("InvalidAccessorKey", NUL,
          get_utf8_column(s, p) - 1, CharsInBytes(s, p, find_next_separator(s, p)))

take_numeric_key(s, p) ==
    IF ~(p < Len(s) /\ s[p + 1] = LBRACK) THEN missing_prefix(s, p)
    ELSE LET terminated(q, close) ==
                 IF close = -1
                 THEN Failure("MissingClosingBracket", NUL,
                              get_utf8_column(s, p) - 1, get_utf8_column(s, p) - 1 + 1)
                 ELSE LET parsed(index, n) ==
                              IF n < 0
                              THEN Failure("NotANumber", NUL, get_utf8_column(s, q) - 1,
                                           get_utf8_column(s, q) - 1 + Len(index))
                              ELSE Ok(close + 1, NumericKey(n))
                      IN  parsed(Sub(s, q, close), parse_usize(Sub(s, q, close)))
         IN  terminated(p + 1, FindChar(s, p + 1, RBRACK))

take_string_key(s, p) ==
    IF ~(p < Len(s) /\ s[p + 1] = DOT) THEN missing_prefix(s, p)
    ELSE IF p + 1 < Len(s) /\ s[p + 2] = QUOTE
    THEN LET terminated(r) ==
                 IF ~r.ok THEN r
                 ELSE IF ~(r.rest < Len(s) /\ s[r.rest + 1] = QUOTE)
                 THEN from_error_kind(s, r.rest, "Unknown.Tag")
                 ELSE Ok(r.rest + 1, StringKey(r.val))
         IN  terminated(take_string_with_escape_until(s, p + 2, is_quote, RESERVED_RAW_LITERAL))
    ELSE LET then(r) == IF ~r.ok THEN r ELSE Ok(r.rest, StringKey(r.val))
         IN  then(take_string_with_escape_until(s, p + 1, is_separator, RESERVED_TOKEN))

take_key(s, p) == alt(take_string_key(s, p), take_numeric_key(s, p))

SpannedKey(key, start, end) == [key |-> key, start |-> start, end |-> end]

\* the span of the text read from p to rest: its start column, and the
\* characters held by the bytes read
SpanOf(s, p, rest) ==
    [start |-> get_utf8_column(s, p) - 1,
     end |-> get_utf8_column(s, p) - 1 + CharsInBytes(s, p, ByteLen(Sub(s, p, rest)))]

take_spanned_key(s, p) ==
    LET spanned(r, span) == Ok(r.rest, SpannedKey(r.val, span.start, span.end))
        then(r) == IF ~r.ok THEN r ELSE spanned(r, SpanOf(s, p, r.rest))
    IN  then(take_key(s, p))

\* the key loop of take_spanned_accessor: keys so far, position p
RECURSIVE key_loop(_, _, _)
key_loop(s, p, keys) ==
    LET then(r) ==
            IF r.ok THEN key_loop(s, r.rest, Append(keys, r.val))
            ELSE IF r.tag = "Failure" THEN r
            ELSE Ok(p, keys)
    IN  then(take_spanned_key(s, p))

take_spanned_accessor(s, p) ==
    IF ~(p + 1 < Len(s) /\ s[p + 1] = DOLLAR /\ s[p + 2] = LBRACE)
    THEN Failure("InvalidAccessorKey", NUL,
                 get_utf8_column(s, p) - 1, get_utf8_column(s, p) - 1 + 1)
    ELSE LET closing(kl) ==
                 IF ~kl.ok THEN kl
                 ELSE IF ~(kl.rest < Len(s) /\ s[kl.rest + 1] = RBRACE)
                 THEN Failure("MissingClosingBracket", NUL,
                              get_utf8_column(s, p) - 1, get_utf8_column(s, p) - 1 + 2)
                 ELSE Ok(kl.rest + 1,
                         [keys |-> kl.val,
                          start |-> get_utf8_column(s, p) - 1,
                          end |-> get_utf8_column(s, kl.rest + 1) - 1])
             keys(rr, span) ==
                 closing(key_loop(s, rr.rest,
                                  <<SpannedKey(StringKey(rr.val), span.start, span.end)>>))
             root(rr) == IF ~rr.ok THEN rr ELSE keys(rr, SpanOf(s, p + 2, rr.rest))
         IN  root(take_string_with_escape_until(s, p + 2, is_separator, RESERVED_TOKEN))

----------------------------------------------------------------------------
(* The string interpolator.                                                *)

\* The loop of take_spanned_string_interpolator.  A segment also records
\* where its accessor was read, from (the offset of its "$") and to (the
\* offset after its "}"): the two positions of `rest` in the loop, which the
\* Rust value does not keep.
RECURSIVE interpolator_loop(_, _, _)
interpolator_loop(s, p, segments) ==
    LET push(r, a) ==
            IF ~a.ok THEN a
            ELSE interpolator_loop(s, a.rest,
                     Append(segments, [prefix |-> r.val, accessor |-> a.val,
                                       from |-> r.rest, to |-> a.rest]))
        then(r) ==
            IF ~r.ok THEN r
            ELSE IF r.rest >= Len(s)
            THEN Ok(r.rest, [segments |-> segments, postfix |-> r.val])
            ELSE push(r, take_spanned_accessor(s, r.rest))
    IN  then(take_string_with_escape_until(s, p, is_dollar, {DOLLAR}))

take_spanned_string_interpolator(s) == interpolator_loop(s, 0, <<>>)

----------------------------------------------------------------------------
(* The path schema and its validator.                                      *)

Root == [node |-> "Root"]
ObjectRoot == [node |-> "ObjectRoot"]
KnownField == [node |-> "KnownField"]
\* PathNode::Node: children is a function from key names to PathNodes; iter
\* stands for the HashMap's hasher state, which fixes its iteration order
Node(children) == [node |-> "Node", children |-> children, iter |-> 0]
HashedNode(children, iter) == [node |-> "Node", children |-> children, iter |-> iter]

VOk == [ok |-> TRUE]
VErr(kind, possible_keys, start, end) ==
    [ok |-> FALSE, kind |-> kind, possible_keys |-> possible_keys, start |-> start, end |-> end]

Min(a, b) == IF a <= b THEN a ELSE b

\* the shorter text, by its length in bytes, is s1; s2 when they are equal
shorter(s1, s2) == IF ByteLen(s1) < ByteLen(s2) THEN s1 ELSE s2
\* the selection with its first argument kept as the longer text
longer_first(s1, s2) == s1

longer(s1, s2) == IF ByteLen(s1) < ByteLen(s2) THEN s2 ELSE s1

DistanceMapEntry(distance, character) == [distance |-> distance, character |-> character]

\* the first row: the edit distance from the empty string
first_row(s1) ==
    <<DistanceMapEntry(0, NUL)>> \o [i \in 1..Len(s1) |-> DistanceMapEntry(i, s1[i])]

\* the inner loop `for idx in 1..len`, then the flush of the last value;
\* table_buffer[idx] of the code is table_buffer[idx + 1] here
RECURSIVE distance_row(_, _, _, _)
distance_row(table_buffer, idx, previous_distance, ch2) ==
    IF idx >= Len(table_buffer)
    THEN [table_buffer EXCEPT ![Len(table_buffer)].distance = previous_distance]
    ELSE LET this_distance ==
                 Min(Min(previous_distance, table_buffer[idx + 1].distance),
                     table_buffer[idx].distance)
                 + (IF ch2 # table_buffer[idx + 1].character THEN 1 ELSE 0)
         IN  distance_row([table_buffer EXCEPT ![idx].distance = previous_distance],
                          idx + 1, this_distance, ch2)

\* the outer loop over the characters of the second string
RECURSIVE distance_rows(_, _, _)
distance_rows(table_buffer, s2, start_distance) ==
    IF start_distance >= Len(s2) THEN table_buffer
    ELSE distance_rows(distance_row(table_buffer, 1, start_distance + 1,
                                    s2[start_distance + 1]),
                       s2, start_distance + 1)

edit_distance(s1, s2) ==
    LET last(table_buffer) == table_buffer[Len(table_buffer)].distance
    IN  last(distance_rows(first_row(shorter(s1, s2)), longer(s1, s2), 0))

\* the order of String: by code points, a proper prefix first
RECURSIVE StrLess(_, _)
StrLess(x, y) ==
    IF y = <<>> THEN FALSE
    ELSE IF x = <<>> THEN TRUE
    ELSE IF Head(x) # Head(y) THEN Head(x) < Head(y)
    ELSE StrLess(Tail(x), Tail(y))

\* the order of the pairs (edit distance, key) that keys.sort() uses
PairLeq(x, y) == x[1] < y[1] \/ (x[1] = y[1] /\ (x[2] = y[2] \/ StrLess(x[2], y[2])))

\* the key names in ascending order
RECURSIVE Ascending(_)
Ascending(names) ==
    IF names = {} THEN <<>>
    ELSE LET then(least) == <<least>> \o Ascending(names \ {least})
         IN  then(CHOOSE x \in names : \A y \in names : x = y \/ StrLess(x, y))

\* children.keys(): the key names in the order the hasher state gives; the
\* states 0 .. n! - 1 give the n! orders of n names
RECURSIVE keys_iter(_, _)
keys_iter(names, iter) ==
    IF names = {} THEN <<>>
    ELSE LET n == Cardinality(names)
             then(first) == <<first>> \o keys_iter(names \ {first}, iter \div n)
         IN  then(Ascending(names)[(iter % n) + 1])

\* keys.sort(): a stable sort of the vector of pairs
RECURSIVE sort(_)
sort(v) ==
    IF v = <<>> THEN <<>>
    ELSE LET insert(x, sorted) ==
                 LET k == Cardinality({i \in 1..Len(sorted) :
                                         PairLeq(sorted[i], x) /\ sorted[i] # x})
                 IN  SubSeq(sorted, 1, k) \o <<x>> \o SubSeq(sorted, k + 1, Len(sorted))
         IN  insert(Head(v), sort(Tail(v)))

\* the vector of (edit distance, key) sorted, then its keys
sorted_keys(pairs) ==
    LET then(sorted) == [i \in 1..Len(sorted) |-> sorted[i][2]]
    IN  then(sort(pairs))

\* possible_keys with the keys left in the order of iteration
possible_keys_unsorted(node, key) == keys_iter(DOMAIN node.children, node.iter)

\* the suggestions of an UnknownKey error
possible_keys(node, key) ==
    LET then(names) ==
            sorted_keys([i \in 1..Len(names) |-> <<edit_distance(names[i], key), names[i]>>])
    IN  then(keys_iter(DOMAIN node.children, node.iter))

RECURSIVE path_contains(_, _, _, _)
path_contains(node, accessor_span, remaining_keys, is_interpolator) ==
    IF node.node = "Root" THEN VOk
    ELSE IF node.node = "ObjectRoot" /\ remaining_keys = <<>> /\ is_interpolator
    THEN VErr("NotStringRepresentable", <<>>, accessor_span.start, accessor_span.end)
    ELSE IF node.node = "ObjectRoot"
    THEN IF remaining_keys = <<>> \/ Head(remaining_keys).key.kind = "String" THEN VOk
         ELSE VErr("NumericIndexInMap", <<>>,
                   Head(remaining_keys).start, Head(remaining_keys).end)
    ELSE IF node.node = "KnownField"
    THEN IF remaining_keys = <<>> THEN VOk
         ELSE VErr("NotIndexable", <<>>, Head(remaining_keys).start, Head(remaining_keys).end)
    ELSE IF remaining_keys = <<>>
    THEN IF ~is_interpolator THEN VOk
         ELSE VErr("NotStringRepresentable", <<>>, accessor_span.start, accessor_span.end)
    ELSE LET k == Head(remaining_keys)
         IN  IF k.key.kind = "Numeric" THEN VErr("NumericIndexInMap", <<>>, k.start, k.end)
             ELSE IF k.key.text \in DOMAIN node.children
             THEN path_contains(node.children[k.key.text], accessor_span,
                                Tail(remaining_keys), is_interpolator)
             ELSE VErr("UnknownKey", possible_keys(node, k.key.text),
                       k.start, k.end)

\* validate with every error laid on the whole accessor
validate_whole_span(self, accessor, is_interpolator) ==
    LET then(r) ==
            IF r.ok THEN r
            ELSE [r EXCEPT !.start = accessor.start, !.end = accessor.end]
    IN  then(path_contains(self, [start |-> accessor.start, end |-> accessor.end],
                           accessor.keys, is_interpolator))

validate(self, accessor, is_interpolator) ==
    path_contains(self, [start |-> accessor.start, end |-> accessor.end],
                  accessor.keys, is_interpolator)

\* validate_accessor in interpolation mode
validate_accessor_interpolated(self, accessor) == validate(self, accessor, TRUE)

validate_accessor(self, accessor) == validate(self, accessor, FALSE)

VOks == [ok |-> TRUE, errors |-> <<>>]
VErrs(errors) == [ok |-> FALSE, errors |-> errors]

\* the loop of validate_interpolator over the segments
RECURSIVE collect_errors(_, _, _)
collect_errors(self, segments, errors) ==
    IF segments = <<>> THEN errors
    ELSE LET then(r) ==
                 collect_errors(self, Tail(segments),
                                IF r.ok THEN errors ELSE Append(errors, r))
         IN  then(validate(self, Head(segments).accessor, TRUE))

\* validate_interpolator that stops at the first failing segment
validate_interpolator_first(self, interpolator) ==
    LET then(errors) == IF errors = <<>> THEN VOks ELSE VErrs(<<Head(errors)>>)
    IN  then(collect_errors(self, interpolator.segments, <<>>))

validate_interpolator(self, interpolator) ==
    LET then(errors) == IF errors = <<>> THEN VOks ELSE VErrs(errors)
    IN  then(collect_errors(self, interpolator.segments, <<>>))

----------------------------------------------------------------------------
(* Inputs.                                                                 *)

MaxPieces == 4

\* the fragments an input text is put together from
Pieces ==
    { <<DOLLAR, LBRACE, LA>>, <<RBRACE>>, <<DOT, LB>>, <<LBRACK, ONE, RBRACK>>,
      <<NL>>, <<EACUTE>>, <<BSLASH>>, <<DOT, QUOTE>>, <<QUOTE>>, <<LN>>,
      <<DOLLAR, LBRACE, LB, RBRACE>> }

RECURSIVE Flatten(_)
Flatten(ps) == IF ps = <<>> THEN <<>> ELSE Head(ps) \o Flatten(Tail(ps))

Inputs == {Flatten(ps) : ps \in UNION {[1..n -> Pieces] : n \in 0..MaxPieces}}

MaxHasherState == 5
HasherStates == 0..MaxHasherState

a_ == <<LA>>
b_ == <<LB>>
an_ == <<LA, LN>>
bn_ == <<LB, LN>>

\* schemas: the root of each is itself any kind of PathNode
Leaves == {Root, ObjectRoot, KnownField}
Inner == Leaves \cup {Node(<<>>)} \cup {Node([x \in {b_} |-> l]) : l \in Leaves}
Schemas == Inner \cup {Node([x \in {a_} |-> n]) : n \in Inner}
             \cup {Node([x \in {b_} |-> KnownField])}
             \cup {Node((a_ :> Node((b_ :> KnownField) @@ (an_ :> ObjectRoot)))
                        @@ (b_ :> Root))}
             \cup {Node((a_ :> HashedNode((b_ :> KnownField) @@ (an_ :> ObjectRoot)
                                            @@ (bn_ :> Root), iter))
                        @@ (b_ :> Root)) : iter \in HasherStates}

NoRes == [ok |-> FALSE, tag |-> "none", kind |-> "none", ch |-> NUL, start |-> 0, end |-> 0]
NoVal == [ok |-> FALSE, kind |-> "none", possible_keys |-> <<>>, start |-> 0, end |-> 0]
NoVals == [ok |-> FALSE, errors |-> <<>>]

----------------------------------------------------------------------------
(* The state machine: one call of an entry point on an input, then the     *)
(* validation of what it returned.                                         *)

Init ==
    /\ input \in Inputs
    /\ op = "none"
    /\ ctx = "input"
    /\ at = 0
    /\ res = NoRes
    /\ schema = Root
    /\ vres = [standalone |-> NoVal, interpolation |-> NoVal]
    /\ ires = NoVals
    /\ pair = <<>>
    /\ dist = -1

ParseAccessor ==
    /\ op = "none"
    /\ ctx = "input"
    /\ op' = "accessor"
    /\ res' = take_spanned_accessor(input, 0)
    /\ UNCHANGED <<ires, pair, dist, input, ctx, at, schema, vres>>

ParseInterpolator ==
    /\ op = "none"
    /\ ctx = "input"
    /\ op' = "interpolator"
    /\ res' = take_spanned_string_interpolator(input)
    /\ UNCHANGED <<ires, pair, dist, input, ctx, at, schema, vres>>

\* PathNode::validate_accessor on the accessor just parsed
ValidateAccessor ==
    /\ op = "accessor"
    /\ res.ok
    /\ \E n \in Schemas :
          /\ schema' = n
          /\ vres' = [standalone |-> validate_accessor(n, res.val),
                      interpolation |-> NoVal]
    /\ op' = "validated"
    /\ UNCHANGED <<ires, pair, dist, input, ctx, at, res>>

\* PathNode::validate(accessor, true) on the same accessor and schema
ValidateInInterpolation ==
    /\ op = "validated"
    /\ vres.interpolation = NoVal
    /\ vres' = [vres EXCEPT !.interpolation = validate(schema, res.val, TRUE)]
    /\ UNCHANGED <<ires, pair, dist, input, op, ctx, at, res, schema>>

\* PathNode::validate_interpolator on the interpolator just parsed
ValidateInterpolator ==
    /\ op = "interpolator"
    /\ res.ok
    /\ \E n \in Schemas :
          /\ schema' = n
          /\ ires' = validate_interpolator(n, res.val)
    /\ op' = "interpolator_validated"
    /\ UNCHANGED <<pair, dist, input, ctx, at, res, vres>>

Next ==
    \/ ParseAccessor
    \/ ParseInterpolator
    \/ ValidateAccessor
    \/ ValidateInInterpolation
    \/ ValidateInterpolator

Spec == Init /\ [][Next]_vars

----------------------------------------------------------------------------
(* The parts called on their own, as the repository's tests call them: the *)
(* scanner in each of its three contexts, take_numeric_key and             *)
(* take_spanned_key.  The call starts at offset `at` of the input, after a *)
(* text already read.                                                      *)

MaxScanLen == 3
MaxKeyLen == 5

SeqsUpTo(A, n) == UNION {[1..k -> A] : k \in 0..n}

ScanAlphabet ==
    {BSLASH, LBRACE, RBRACE, LBRACK, RBRACK, DOT, DOLLAR, QUOTE, LN, LT, LR, LA, NL}
NumericAlphabet == {LBRACK, RBRACK, ZERO, ONE, PLUS, MINUS, LA}
StringAlphabet == {DOT, QUOTE, BSLASH, DOLLAR, LBRACK, LA, NL}

\* the texts take_unicode is called on: an opening brace or none, up to
\* MaxHexPieces pieces, a closing brace or none
MaxHexPieces == 3
HexPieces ==
    { <<ZERO>>, <<ONE>>, <<UD, EIGHT>>, <<ZERO, ZERO, ZERO, ZERO>>, <<PLUS>>, <<LF>>,
      <<LN>>, <<EACUTE>>, <<MINUS>>, <<RBRACE>> }
UnicodeTexts ==
    { open \o Flatten(ps) \o close :
          open \in {<<>>, <<LBRACE>>},
          ps \in SeqsUpTo(HexPieces, MaxHexPieces),
          close \in {<<>>, <<RBRACE>>} }

\* the text read before the call
Before == {<<>>, <<NL>>}

ScanContexts == {"key", "quoted", "literal"}

\* the stop predicate and the reserved set of each call of the scanner
Cond(c) == IF c = "key" THEN is_separator ELSE IF c = "quoted" THEN is_quote ELSE is_dollar
Reserved(c) ==
    IF c = "key" THEN RESERVED_TOKEN
    ELSE IF c = "quoted" THEN RESERVED_RAW_LITERAL
    ELSE {DOLLAR}

InitParts ==
    /\ op = "none"
    /\ res = NoRes
    /\ schema = Root
    /\ vres = [standalone |-> NoVal, interpolation |-> NoVal]
    /\ ires = NoVals
    /\ pair = <<>>
    /\ dist = -1
    /\ \E pre \in Before :
          /\ at = Len(pre)
          /\ \/ /\ ctx \in ScanContexts
                /\ \E body \in SeqsUpTo(ScanAlphabet, MaxScanLen) : input = pre \o body
             \/ /\ ctx = "numeric_key"
                /\ \E body \in SeqsUpTo(NumericAlphabet, MaxKeyLen) : input = pre \o body
             \/ /\ ctx \in {"spanned_key", "string_key"}
                /\ \E body \in SeqsUpTo(StringAlphabet, MaxKeyLen) : input = pre \o body
             \/ /\ ctx = "unicode"
                /\ \E body \in UnicodeTexts : input = pre \o body

Scan ==
    /\ op = "none"
    /\ ctx \in ScanContexts
    /\ op' = "scan"
    /\ res' = take_string_with_escape_until(input, at, Cond(ctx), Reserved(ctx))
    /\ UNCHANGED <<ires, pair, dist, input, ctx, at, schema, vres>>

TakeNumericKey ==
    /\ op = "none"
    /\ ctx = "numeric_key"
    /\ op' = "numeric_key"
    /\ res' = take_numeric_key(input, at)
    /\ UNCHANGED <<ires, pair, dist, input, ctx, at, schema, vres>>

TakeSpannedKey ==
    /\ op = "none"
    /\ ctx = "spanned_key"
    /\ op' = "spanned_key"
    /\ res' = take_spanned_key(input, at)
    /\ UNCHANGED <<ires, pair, dist, input, ctx, at, schema, vres>>

TakeStringKey ==
    /\ op = "none"
    /\ ctx = "string_key"
    /\ op' = "string_key"
    /\ res' = take_string_key(input, at)
    /\ UNCHANGED <<ires, pair, dist, input, ctx, at, schema, vres>>

TakeUnicode ==
    /\ op = "none"
    /\ ctx = "unicode"
    /\ op' = "unicode"
    /\ res' = take_unicode(input, at)
    /\ UNCHANGED <<ires, pair, dist, input, ctx, at, schema, vres>>

NextParts == Scan \/ TakeNumericKey \/ TakeSpannedKey \/ TakeStringKey \/ TakeUnicode

SpecParts == InitParts /\ [][NextParts]_vars

----------------------------------------------------------------------------
(* edit_distance called on its own, on a pair of key names.                *)

MaxWordLen == 3

WordAlphabet == {LA, LB, EACUTE}
Words == SeqsUpTo(WordAlphabet, MaxWordLen)

InitDistance ==
    /\ input = <<>>
    /\ op = "none"
    /\ ctx = "edit_distance"
    /\ at = 0
    /\ res = NoRes
    /\ schema = Root
    /\ vres = [standalone |-> NoVal, interpolation |-> NoVal]
    /\ ires = NoVals
    /\ pair \in Words \X Words
    /\ dist = -1

EditDistance ==
    /\ op = "none"
    /\ ctx = "edit_distance"
    /\ op' = "edit_distance"
    /\ dist' = edit_distance(pair[1], pair[2])
    /\ UNCHANGED <<input, ctx, at, res, schema, vres, ires, pair>>

NextDistance == EditDistance

SpecDistance == InitDistance /\ [][NextDistance]_vars

----------------------------------------------------------------------------
(* The three loops, one iteration at a time: the character scan of         *)
(* take_string_with_escape_until, the key loop of take_spanned_accessor    *)
(* and the segment loop of take_spanned_string_interpolator.  While a loop *)
(* runs, res holds Ok(rest, what the loop has collected so far) and at is  *)
(* the position of the remaining input (the segment loop has its segments  *)
(* so far, and no postfix yet); when it ends, res is what the loop leaves. *)

Running(r) == [running |-> TRUE, res |-> r]
Ended(r) == [running |-> FALSE, res |-> r]

\* the body of the loop of take_string_with_escape_until, taking an
\* unreserved character without consuming it
scan_iteration_peek(s, p, buf, cond, reserved_token) ==
    IF p >= Len(s) \/ s[p + 1] \in cond THEN Ended(Ok(p, buf))
    ELSE LET then(r) ==
                 IF r.ok THEN Running(Ok(p, Append(buf, r.val)))
                 ELSE Ended(r)
         IN  then(alt(take_escaped_char(s, p, reserved_token), take_char(s, p, reserved_token)))

\* the body of the loop of take_string_with_escape_until
scan_iteration(s, p, buf, cond, reserved_token) ==
    IF p >= Len(s) \/ s[p + 1] \in cond THEN Ended(Ok(p, buf))
    ELSE LET then(r) ==
                 IF r.ok THEN Running(Ok(r.rest, Append(buf, r.val)))
                 ELSE Ended(r)
         IN  then(alt(take_escaped_char(s, p, reserved_token), take_char(s, p, reserved_token)))

\* the body of the key loop of take_spanned_accessor
key_iteration(s, p, keys) ==
    LET then(r) ==
            IF r.ok THEN Running(Ok(r.rest, Append(keys, r.val)))
            ELSE IF r.tag = "Failure" THEN Ended(r)
            ELSE Ended(Ok(p, keys))
    IN  then(take_spanned_key(s, p))

\* the body of the loop of take_spanned_string_interpolator
segment_iteration(s, p, segments) ==
    LET push(r, a) ==
            IF ~a.ok THEN Ended(a)
            ELSE Running(Ok(a.rest,
                            [segments |-> Append(segments, [prefix |-> r.val, accessor |-> a.val,
                                                            from |-> r.rest, to |-> a.rest]),
                             postfix |-> <<>>]))
        then(r) ==
            IF ~r.ok THEN Ended(r)
            ELSE IF r.rest >= Len(s)
            THEN Ended(Ok(r.rest, [segments |-> segments, postfix |-> r.val]))
            ELSE push(r, take_spanned_accessor(s, r.rest))
    IN  then(take_string_with_escape_until(s, p, is_dollar, {DOLLAR}))

InitLoops ==
    /\ input = <<>>
    /\ op = "none"
    /\ ctx = "none"
    /\ at = 0
    /\ res = NoRes
    /\ schema = Root
    /\ vres = [standalone |-> NoVal, interpolation |-> NoVal]
    /\ ires = NoVals
    /\ pair = <<>>
    /\ dist = -1

\* a loop is entered at the start of an input, with nothing collected yet
EnterLoop ==
    /\ op = "none"
    /\ op' = "running"
    /\ \/ /\ ctx' \in ScanContexts
          /\ input' \in SeqsUpTo(ScanAlphabet, MaxScanLen)
          /\ res' = Ok(0, <<>>)
       \/ /\ ctx' = "keys"
          /\ input' \in Inputs
          /\ res' = Ok(0, <<>>)
       \/ /\ ctx' = "segments"
          /\ input' \in Inputs
          /\ res' = Ok(0, [segments |-> <<>>, postfix |-> <<>>])
    /\ UNCHANGED <<at, schema, vres, ires, pair, dist>>

\* one iteration leaves the loop running on the rest, or ends it
Iterate(st) ==
    /\ op' = IF st.running THEN "running" ELSE "done"
    /\ res' = st.res
    /\ at' = IF st.running THEN st.res.rest ELSE at
    /\ UNCHANGED <<input, ctx, schema, vres, ires, pair, dist>>

ScanIteration ==
    /\ op = "running"
    /\ ctx \in ScanContexts
    /\ Iterate(scan_iteration(input, at, res.val, Cond(ctx), Reserved(ctx)))

KeyIteration ==
    /\ op = "running"
    /\ ctx = "keys"
    /\ Iterate(key_iteration(input, at, res.val))

SegmentIteration ==
    /\ op = "running"
    /\ ctx = "segments"
    /\ Iterate(segment_iteration(input, at, res.val.segments))

IterateLoop == ScanIteration \/ KeyIteration \/ SegmentIteration

NextLoops == EnterLoop \/ IterateLoop

\* A loop is entered, and a running loop goes on to its next iteration:
\* weak fairness of EnterLoop and of IterateLoop.  An iteration is enabled
\* exactly while op = "running" (it ends the loop or appends to what the
\* loop has collected, so it always changes the state), and the fairness of
\* IterateLoop is written with that condition in the place of ENABLED.
RunsOn == []<>(op # "running") \/ []<><<IterateLoop>>_vars

SpecLoops == InitLoops /\ [][NextLoops]_vars /\ WF_vars(EnterLoop) /\ RunsOn

----------------------------------------------------------------------------
(* C1.  An accessor parsed from offset 0 has the span [0, n), n being the  *)
(* number of characters read from "${" through "}", and the remaining      *)
(* input starts right after that "}".                                      *)

AccessorParsed == op \in {"accessor", "validated"} /\ res.ok

C1_SpanIsConsumedText ==
    AccessorParsed =>
        /\ res.val.start = 0
        /\ res.val.end = res.rest
        /\ input[res.rest] = RBRACE

----------------------------------------------------------------------------
(* C2.  In every accessor returned the key list is non-empty, the root     *)
(* key's span starts at accessor.start + 2, each later key's span starts   *)
(* where the previous one ends, and the last key's span ends at            *)
(* accessor.end - 1.                                                       *)

KeysTile(a) ==
    /\ Len(a.keys) >= 1
    /\ a.keys[1].start = a.start + 2
    /\ \A i \in 1..(Len(a.keys) - 1) : a.keys[i + 1].start = a.keys[i].end
    /\ a.keys[Len(a.keys)].end = a.end - 1

\* every accessor the state holds: the one parsed alone, or those of the segments
AccessorsReturned ==
    IF AccessorParsed THEN {res.val}
    ELSE IF op = "interpolator" /\ res.ok
    THEN {res.val.segments[i].accessor : i \in 1..Len(res.val.segments)}
    ELSE {}

C2_KeySpansTile == \A a \in AccessorsReturned : KeysTile(a)

----------------------------------------------------------------------------
(* C3.  Every span of an accessor and of a key is a pair of absolute       *)
(* character offsets into the whole input: the number of characters that   *)
(* precede the position, with start <= end.                                *)

\* the offsets at which the keys of the accessor that starts at `from` end:
\* the root's, then each later key's (the `rest` of each read)
RECURSIVE KeyEndsFrom(_, _)
KeyEndsFrom(s, p) ==
    LET then(r) == IF r.ok THEN <<r.rest>> \o KeyEndsFrom(s, r.rest) ELSE <<>>
    IN  then(take_key(s, p))

KeyEnds(s, from) ==
    LET then(r) == <<r.rest>> \o KeyEndsFrom(s, r.rest)
    IN  then(take_string_with_escape_until(s, from + 2, is_separator, RESERVED_TOKEN))

AbsoluteSpans(s, a, from, to) ==
    LET ends == KeyEnds(s, from)
    IN  /\ a.start = from
        /\ a.end = to
        /\ a.start <= a.end
        /\ \A i \in 1..Len(a.keys) :
              /\ a.keys[i].start = (IF i = 1 THEN from + 2 ELSE ends[i - 1])
              /\ a.keys[i].end = ends[i]
              /\ a.keys[i].start <= a.keys[i].end

C3_SpansAreAbsoluteOffsets ==
    /\ AccessorParsed => AbsoluteSpans(input, res.val, 0, res.rest)
    /\ (op = "interpolator" /\ res.ok) =>
          \A i \in 1..Len(res.val.segments) :
              AbsoluteSpans(input, res.val.segments[i].accessor,
                            res.val.segments[i].from, res.val.segments[i].to)

----------------------------------------------------------------------------
(* C4.  When the key loop stops on a recoverable mismatch and the next     *)
(* character is not "}", the result is the fatal MissingClosingBracket     *)
(* whose span is the two characters of the opening "${"; the recoverable   *)
(* error is never returned.                                                *)

\* the offsets at which take_spanned_string_interpolator reads an accessor
RECURSIVE AccessorSites(_, _)
AccessorSites(s, p) ==
    LET read(from, a) == <<from>> \o (IF a.ok THEN AccessorSites(s, a.rest) ELSE <<>>)
        then(r) == IF ~r.ok \/ r.rest >= Len(s) THEN <<>>
                   ELSE read(r.rest, take_spanned_accessor(s, r.rest))
    IN  then(take_string_with_escape_until(s, p, is_dollar, {DOLLAR}))

\* the accessor at `from` opens, reads its root, and its key loop stops (on a
\* recoverable mismatch) at a position that holds no "}"
StopsUnclosed(s, from) ==
    /\ from + 1 < Len(s) /\ s[from + 1] = DOLLAR /\ s[from + 2] = LBRACE
    /\ LET unclosed(kl) == kl.ok /\ ~(kl.rest < Len(s) /\ s[kl.rest + 1] = RBRACE)
           then(rr) == rr.ok /\ unclosed(key_loop(s, rr.rest, <<>>))
       IN  then(take_string_with_escape_until(s, from + 2, is_separator, RESERVED_TOKEN))

\* the accessor the failed call was reading
FailedSite ==
    IF op = "accessor" THEN 0
    ELSE LET sites == AccessorSites(input, 0)
         IN  IF sites = <<>> THEN -1 ELSE sites[Len(sites)]

C4_MissingClosingBracket ==
    (op \in {"accessor", "interpolator"} /\ FailedSite >= 0 /\ StopsUnclosed(input, FailedSite)) =>
        res = Failure("MissingClosingBracket", NUL, FailedSite, FailedSite + 2)

----------------------------------------------------------------------------
(* C5.  A successful take_spanned_string_interpolator returns one segment  *)
(* per accessor, in source order; a segment's prefix is the literal text   *)
(* (escapes decoded) between the end of the previous accessor (or the      *)
(* input's start) and the "$" of its own; postfix is the literal text      *)
(* after the last "}"; with no accessor, segments is empty and postfix is  *)
(* the whole input.                                                        *)

\* the character an escape letter stands for
Unescaped(c) == IF c = LN THEN NL ELSE IF c = LT THEN TAB ELSE IF c = LR THEN CR ELSE c

\* the text a literal stands for: a backslash and the character after it
\* are one decoded character (the inputs hold no \u escape), a backslash that
\* ends the text stands for itself
RECURSIVE LiteralText(_)
LiteralText(t) ==
    IF t = <<>> THEN <<>>
    ELSE IF Head(t) = BSLASH /\ Len(t) >= 2
    THEN <<Unescaped(t[2])>> \o LiteralText(SubSeq(t, 3, Len(t)))
    ELSE <<Head(t)>> \o LiteralText(Tail(t))

\* a "$" of t that no backslash escapes
RECURSIVE HasBareDollar(_)
HasBareDollar(t) ==
    IF t = <<>> THEN FALSE
    ELSE IF Head(t) = BSLASH /\ Len(t) >= 2 THEN HasBareDollar(SubSeq(t, 3, Len(t)))
    ELSE Head(t) = DOLLAR \/ HasBareDollar(Tail(t))

\* the end of the accessor before segment i, or the input's start
PreviousEnd(segments, i) == IF i = 1 THEN 0 ELSE segments[i - 1].to

SegmentsInOrder(s, v) ==
    /\ \A i \in 1..Len(v.segments) :
          LET seg == v.segments[i]
              literal == Sub(s, PreviousEnd(v.segments, i), seg.from)
          IN  /\ PreviousEnd(v.segments, i) <= seg.from
              /\ seg.from < seg.to
              /\ s[seg.from + 1] = DOLLAR
              /\ s[seg.to] = RBRACE
              /\ ~HasBareDollar(literal)
              /\ seg.prefix = LiteralText(literal)
    /\ LET tail == Sub(s, PreviousEnd(v.segments, Len(v.segments) + 1), Len(s))
       IN  /\ ~HasBareDollar(tail)
           /\ v.postfix = LiteralText(tail)

Interpolated == op = "interpolator" /\ res.ok

----------------------------------------------------------------------------
(* C6.  In each of the three scanning contexts, each of the escapes        *)
(* \\ \{ \} \[ \] \. \$ \" decodes to the escaped character, and \n \t \r  *)
(* decode to line feed, tab and carriage return; none is rejected.         *)

LiteralEscapes == {BSLASH, LBRACE, RBRACE, LBRACK, RBRACK, DOT, DOLLAR, QUOTE}
ControlEscapes == {LN, LT, LR}

\* the call scanned a text that begins with a backslash and the character c
ScannedEscape(c) ==
    /\ op = "scan"
    /\ Len(input) >= at + 2
    /\ input[at + 1] = BSLASH
    /\ input[at + 2] = c

\* the escape of c is decoded: the scan goes on after it as it would from
\* there, with the decoded character put first
Decodes(c) ==
    LET then(after) ==
            IF after.ok THEN res = Ok(after.rest, <<Unescaped(c)>> \o after.val)
            ELSE res = after
    IN  then(take_string_with_escape_until(input, at + 2, Cond(ctx), Reserved(ctx)))

\* the escape of c is rejected
Rejects(c) == res.ok = FALSE /\ res.tag = "Failure" /\ res.kind = "InvalidEscapeCharacter" /\ res.ch = c

\* the claim as stated
C6_EveryEscapeInEveryContext ==
    \A c \in LiteralEscapes \cup ControlEscapes : ScannedEscape(c) => Decodes(c)

\* the claim as amended: \\ \n \t \r decode in every context; the escape of
\* another character decodes exactly when the character is reserved in the
\* context, and is rejected otherwise
C6_EscapesOfTheContext ==
    \A c \in LiteralEscapes \cup ControlEscapes :
        ScannedEscape(c) =>
            IF c \in ControlEscapes \cup {BSLASH} \cup Reserved(ctx) THEN Decodes(c) ELSE Rejects(c)

C6_Witness ==
    /\ ScannedEscape(DOT)
    /\ ctx = "key"
    /\ res.ok
    /\ res.val = <<DOT, LA>>

----------------------------------------------------------------------------
(* C7.  take_numeric_key succeeds only when the text between "[" and the   *)
(* next "]" is one or more decimal digits, and then returns Numeric(value) *)
(* and consumes through the "]"; every other bracket content is rejected.  *)

IsDigit(c) == c >= ZERO /\ c <= NINE

\* the value of a text of decimal digits
RECURSIVE DecimalValue(_)
DecimalValue(t) ==
    IF t = <<>> THEN 0
    ELSE 10 * DecimalValue(SubSeq(t, 1, Len(t) - 1)) + (t[Len(t)] - ZERO)

C7_OnlyDigitsBetweenBrackets ==
    op = "numeric_key" =>
        LET close == FindChar(input, at + 1, RBRACK)
            content == Sub(input, at + 1, close)
            digits == /\ at < Len(input) /\ input[at + 1] = LBRACK
                      /\ close >= 0
                      /\ content # <<>>
                      /\ \A i \in 1..Len(content) : IsDigit(content[i])
        IN  /\ res.ok <=> digits
            /\ res.ok => res = Ok(close + 1, NumericKey(DecimalValue(content)))

----------------------------------------------------------------------------
(* C8.  For a string key written ."...", the key is the decoded text       *)
(* between the two quotes: only the quote is reserved there, so            *)
(* . [ ] { } $ may appear unescaped and do not end the key, escapes are    *)
(* still decoded, and the key's span runs from the "." through the closing *)
(* quote.                                                                  *)

\* the offset of the quote that closes a quoted text starting at p: the
\* first one that no backslash escapes, or -1
RECURSIVE ClosingQuote(_, _)
ClosingQuote(s, p) ==
    IF p >= Len(s) THEN -1
    ELSE IF s[p + 1] = QUOTE THEN p
    ELSE IF s[p + 1] = BSLASH /\ p + 1 < Len(s) THEN ClosingQuote(s, p + 2)
    ELSE ClosingQuote(s, p + 1)

\* every backslash of t starts an escape the quoted key decodes
RECURSIVE QuotedEscapesValid(_)
QuotedEscapesValid(t) ==
    IF t = <<>> THEN TRUE
    ELSE IF Head(t) = BSLASH
    THEN /\ Len(t) >= 2
         /\ t[2] \in {BSLASH, QUOTE, LN, LT, LR}
         /\ QuotedEscapesValid(SubSeq(t, 3, Len(t)))
    ELSE QuotedEscapesValid(Tail(t))

\* the call read a key that opens with ." and whose quoted text closes
QuotedKeyRead ==
    /\ op = "spanned_key"
    /\ Len(input) >= at + 2
    /\ input[at + 1] = DOT
    /\ input[at + 2] = QUOTE
    /\ ClosingQuote(input, at + 2) >= 0
    /\ QuotedEscapesValid(Sub(input, at + 2, ClosingQuote(input, at + 2)))

C8_QuotedKey ==
    QuotedKeyRead =>
        LET close == ClosingQuote(input, at + 2)
        IN  res = Ok(close + 1,
                     SpannedKey(StringKey(LiteralText(Sub(input, at + 2, close))),
                                at, close + 1))

----------------------------------------------------------------------------
(* C9.  Validation walks the keys left to right from the schema root and   *)
(* stops at the first mismatch: Root accepts any remaining keys;           *)
(* ObjectRoot accepts a remainder that starts with a string key and        *)
(* rejects a numeric first key with NumericIndexInMap; KnownField rejects  *)
(* any further key with NotIndexable; Node rejects a numeric key with      *)
(* NumericIndexInMap and a string key that is not a child with UnknownKey, *)
(* and goes on into the child otherwise.  The error's span is the span of  *)
(* the first offending key, and the keys after it do not change the        *)
(* result.                                                                 *)

\* the key at position i of the accessor names a child of the node n
Descends(n, keys, i) ==
    /\ i <= Len(keys)
    /\ n.node = "Node"
    /\ keys[i].key.kind = "String"
    /\ keys[i].key.text \in DOMAIN n.children

\* the node the walk stands on after i keys, when every key before led into a
\* child
RECURSIVE NodeAfter(_, _, _)
NodeAfter(n, keys, i) ==
    IF i = 0 THEN n
    ELSE LET then(m) == m.children[keys[i].key.text]
         IN  then(NodeAfter(n, keys, i - 1))

\* the number of keys the walk descends through before it stops
Stop(n, keys) ==
    Max({i \in 0..Len(keys) :
            \A j \in 1..i : Descends(NodeAfter(n, keys, j - 1), keys, j)})

\* what the walk answers on a node n that still has the key k before it
Answer(n, k) ==
    IF n.node = "Root" THEN "Ok"
    ELSE IF n.node = "ObjectRoot"
    THEN IF k.key.kind = "String" THEN "Ok" ELSE "NumericIndexInMap"
    ELSE IF n.node = "KnownField" THEN "NotIndexable"
    ELSE IF k.key.kind = "Numeric" THEN "NumericIndexInMap"
    ELSE "UnknownKey"

Keys == res.val.keys
Stopped == Stop(schema, Keys)
StoppedOn == NodeAfter(schema, Keys, Stopped)

\* the accessor with only its first n keys
Truncated(accessor, n) == [accessor EXCEPT !.keys = SubSeq(accessor.keys, 1, n)]

\* r is the result the walk owes when it stops with a key before it
WalkResult(r, is_interpolator) ==
    /\ IF Answer(StoppedOn, Keys[Stopped + 1]) = "Ok" THEN r.ok
       ELSE /\ r.ok = FALSE
            /\ r.kind = Answer(StoppedOn, Keys[Stopped + 1])
            /\ r.start = Keys[Stopped + 1].start
            /\ r.end = Keys[Stopped + 1].end
    /\ r = validate(schema, Truncated(res.val, Stopped + 1), is_interpolator)

C9_WalkStopsAtFirstMismatch ==
    (op = "validated" /\ Stopped < Len(Keys)) =>
        /\ WalkResult(vres.standalone, FALSE)
        /\ vres.interpolation # NoVal => WalkResult(vres.interpolation, TRUE)

\* a KnownField reached through the root key rejects the second key, and a
\* third follows it
C9_Witness ==
    /\ op = "validated"
    /\ Len(Keys) = 3
    /\ Stopped = 1
    /\ vres.standalone.ok = FALSE
    /\ vres.standalone.kind = "NotIndexable"
    /\ vres.interpolation # NoVal

----------------------------------------------------------------------------
(* C10.  Standalone validation and interpolation-mode validation of the    *)
(* same accessor against the same schema differ only when the keys are     *)
(* exhausted at a Node or an ObjectRoot: there the standalone one succeeds *)
(* and the interpolation-mode one fails with NotStringRepresentable on the *)
(* whole accessor's span; in every other case both return the same result. *)

BothValidated == op = "validated" /\ vres.interpolation # NoVal

ExhaustedAtContainer ==
    /\ Stopped = Len(Keys)
    /\ StoppedOn.node \in {"Node", "ObjectRoot"}

C10_ModesDifferOnlyAtContainer ==
    BothValidated =>
        IF ExhaustedAtContainer
        THEN /\ vres.standalone = VOk
             /\ vres.interpolation =
                    VErr("NotStringRepresentable", <<>>, res.val.start, res.val.end)
        ELSE vres.interpolation = vres.standalone

\* the keys end on a Node or an ObjectRoot two keys below the schema root
C10_Witness ==
    /\ BothValidated
    /\ ExhaustedAtContainer
    /\ Stopped = 2
    /\ Keys[2].end < res.val.end
    /\ vres.interpolation.ok = FALSE

----------------------------------------------------------------------------
(* C11.  When a string key is not a child of the Node reached, the         *)
(* UnknownKey error's suggestion list holds every child key name of that   *)
(* Node exactly once, with edit_distance(name, attempted key)              *)
(* non-decreasing along the list, and the list is the same for every       *)
(* iteration order of the child map.                                       *)

UnknownKeyFound ==
    /\ op = "validated"
    /\ Stopped < Len(Keys)
    /\ StoppedOn.node = "Node"
    /\ Keys[Stopped + 1].key.kind = "String"

Factorial(n) == IF n <= 1 THEN 1 ELSE IF n = 2 THEN 2 ELSE 6

C11_SuggestionsSortedByDistance ==
    UnknownKeyFound =>
        LET list == vres.standalone.possible_keys
            names == DOMAIN StoppedOn.children
            key == Keys[Stopped + 1].key.text
        IN  /\ vres.standalone.kind = "UnknownKey"
            /\ Len(list) = Cardinality(names)
            /\ {list[i] : i \in 1..Len(list)} = names
            /\ \A i \in 1..(Len(list) - 1) :
                   edit_distance(list[i], key) <= edit_distance(list[i + 1], key)
            /\ \A iter \in 0..(Factorial(Cardinality(names)) - 1) :
                   possible_keys([StoppedOn EXCEPT !.iter = iter], key) = list

\* three suggestions, the nearest of them not the first one iterated
C11_Witness ==
    /\ UnknownKeyFound
    /\ Len(vres.standalone.possible_keys) = 3
    /\ keys_iter(DOMAIN StoppedOn.children, StoppedOn.iter)[1]
           # vres.standalone.possible_keys[1]
    /\ edit_distance(vres.standalone.possible_keys[1], Keys[Stopped + 1].key.text)
           < edit_distance(vres.standalone.possible_keys[3], Keys[Stopped + 1].key.text)

----------------------------------------------------------------------------
(* C12.  validate_interpolator validates every segment's accessor on its   *)
(* own in interpolation mode and never stops early: it returns Ok exactly  *)
(* when no segment fails, and otherwise a non-empty list with exactly one  *)
(* error per failing segment, in segment order, each the error that        *)
(* validating that segment alone gives.                                    *)

Segments == res.val.segments

\* the segments whose accessor fails in interpolation mode
Failing == {i \in 1..Len(Segments) : ~validate(schema, Segments[i].accessor, TRUE).ok}

\* the j-th failing segment
NthFailing(j) == CHOOSE i \in Failing : Cardinality({k \in Failing : k < i}) = j - 1

\* the interpolator that holds segment i alone
Alone(i) == [res.val EXCEPT !.segments = <<Segments[i]>>]

C12_OneErrorPerFailingSegment ==
    op = "interpolator_validated" =>
        /\ ires.ok <=> Failing = {}
        /\ Len(ires.errors) = Cardinality(Failing)
        /\ \A j \in 1..Len(ires.errors) :
               /\ ires.errors[j] = validate(schema, Segments[NthFailing(j)].accessor, TRUE)
               /\ validate_interpolator(schema, Alone(NthFailing(j)))
                      = VErrs(<<ires.errors[j]>>)

\* two failing segments with different errors
C12_Witness ==
    /\ op = "interpolator_validated"
    /\ Len(Segments) = 2
    /\ Len(ires.errors) = 2
    /\ ires.errors[1].kind = "UnknownKey"
    /\ ires.errors[2].kind = "NotIndexable"

----------------------------------------------------------------------------
(* C13.  For every pair of strings a and b, edit_distance(a, b) is the     *)
(* Levenshtein distance between them counted in characters: the least      *)
(* number of single-character insertions, deletions and substitutions that *)
(* turn a into b.                                                          *)

RECURSIVE Levenshtein(_, _)
Levenshtein(a, b) ==
    IF a = <<>> THEN Len(b)
    ELSE IF b = <<>> THEN Len(a)
    ELSE LET least(substituted, deleted, inserted) ==
                 IF substituted <= deleted /\ substituted <= inserted THEN substituted
                 ELSE IF deleted <= inserted THEN deleted
                 ELSE inserted
         IN  least(Levenshtein(Tail(a), Tail(b)) + (IF Head(a) = Head(b) THEN 0 ELSE 1),
                   Levenshtein(Tail(a), b) + 1,
                   Levenshtein(a, Tail(b)) + 1)

C13_EditDistanceIsLevenshtein ==
    op = "edit_distance" => dist = Levenshtein(pair[1], pair[2])

----------------------------------------------------------------------------
(* C14.  edit_distance(s, s) = 0 for every string s, and                   *)
(* edit_distance(a, b) = edit_distance(b, a) for every pair of strings.    *)

C14_ZeroOnEqualAndSymmetric ==
    op = "edit_distance" =>
        /\ pair[1] = pair[2] => dist = 0
        /\ dist = edit_distance(pair[2], pair[1])

\* the first string is the shorter in bytes and the longer in characters
C14_Witness ==
    /\ op = "edit_distance"
    /\ ByteLen(pair[1]) < ByteLen(pair[2])
    /\ Len(pair[1]) > Len(pair[2])
    /\ dist = 3

----------------------------------------------------------------------------
(* C15.  Every parse error returned by take_spanned_accessor or            *)
(* take_spanned_string_interpolator carries a span that lies inside the    *)
(* original input: 0 <= start <= end <= the number of characters of the    *)
(* input, also when the error occurs at the very end of the input.         *)

ParseFailed == op \in {"accessor", "interpolator"} /\ ~res.ok

C15_ErrorSpanInsideInput ==
    ParseFailed =>
        /\ 0 <= res.start
        /\ res.start <= res.end
        /\ res.end <= Len(input)

----------------------------------------------------------------------------
(* C16.  When the input at the parse position does not begin with "${",    *)
(* take_spanned_accessor fails with kind InvalidAccessorKey and a span of  *)
(* one character at the current position, and the failure is soft          *)
(* (recoverable), told apart by its tag from the fatal failure of a        *)
(* malformed accessor.                                                     *)

BeginsWithOpening(s, p) == Len(s) >= p + 2 /\ s[p + 1] = DOLLAR /\ s[p + 2] = LBRACE

C16_NoOpeningIsSoft ==
    (op = "accessor" /\ ~BeginsWithOpening(input, 0)) =>
        res = Error("InvalidAccessorKey", NUL, 0, 1)

----------------------------------------------------------------------------
(* C17.  Once take_string_key has consumed the leading ".", every failure  *)
(* it returns is fatal, a bad escape, a reserved character and a quoted    *)
(* key with no closing quote included, so take_key never tries             *)
(* take_numeric_key on the same input after the dot; likewise every        *)
(* failure of take_numeric_key after "[" was consumed is fatal.            *)

Committed(c) == at < Len(input) /\ input[at + 1] = c

C17_FatalAfterPrefix ==
    /\ (op = "string_key" /\ Committed(DOT) /\ ~res.ok) => res.tag = "Failure"
    /\ (op = "numeric_key" /\ Committed(LBRACK) /\ ~res.ok) => res.tag = "Failure"
    /\ (op = "spanned_key" /\ Committed(DOT) /\ ~res.ok) => res = take_string_key(input, at)

----------------------------------------------------------------------------
(* C18.  take_string_with_escape_until examines characters in order: a     *)
(* character satisfying the stop predicate ends the scan without being     *)
(* consumed and without error, even if it is reserved; otherwise an        *)
(* unescaped reserved character makes the scan fail fatally with           *)
(* InvalidCharacter(c) whose span is exactly that one character; any other *)
(* plain character is appended to the result.                              *)

\* the offset of the first character from p that is not a plain one: a stop
\* character, a reserved one or a backslash; Len(s) when there is none
RECURSIVE PlainUntil(_, _, _)
PlainUntil(s, p, special) ==
    IF p >= Len(s) \/ s[p + 1] \in special THEN p
    ELSE PlainUntil(s, p + 1, special)

FirstSpecial == PlainUntil(input, at, Cond(ctx) \cup Reserved(ctx) \cup {BSLASH})

C18_StopBeforeReserved ==
    (op = "scan" /\ (FirstSpecial = Len(input) \/ input[FirstSpecial + 1] # BSLASH)) =>
        IF FirstSpecial = Len(input) \/ input[FirstSpecial + 1] \in Cond(ctx)
        THEN res = Ok(FirstSpecial, Sub(input, at, FirstSpecial))
        ELSE res = Failure("InvalidCharacter", input[FirstSpecial + 1],
                           FirstSpecial, FirstSpecial + 1)

----------------------------------------------------------------------------
(* C19.  A backslash followed by a character that is none of u, n, t, r,   *)
(* backslash or a member of the current reserved set makes the scan fail   *)
(* fatally with InvalidEscapeCharacter(c), whose span covers exactly the   *)
(* backslash and that character, at their absolute offsets in the input.   *)

C19_InvalidEscapeSpan ==
    ( /\ op = "scan"
      /\ FirstSpecial + 2 <= Len(input)
      /\ input[FirstSpecial + 1] = BSLASH
      /\ input[FirstSpecial + 2] \notin {LU, LN, LT, LR, BSLASH} \cup Reserved(ctx) ) =>
        res = Failure("InvalidEscapeCharacter", input[FirstSpecial + 2],
                      FirstSpecial, FirstSpecial + 2)

----------------------------------------------------------------------------
(* C20.  take_unicode succeeds exactly when its input is "{", then 2 to 8  *)
(* characters each of which is a hexadecimal digit, then "}", and the      *)
(* hexadecimal value is a Unicode scalar value; it then returns the        *)
(* character with that code point and consumes through the "}".            *)

IsHexDigit(c) ==
    \/ c >= ZERO /\ c <= NINE
    \/ c >= LA /\ c <= LF
    \/ c >= UA /\ c <= UF

\* the value of a text of hexadecimal digits; every value above the greatest
\* code point counts as the one next after it
RECURSIVE HexadecimalValue(_)
HexadecimalValue(t) ==
    IF t = <<>> THEN 0
    ELSE LET capped(n) == IF n > MAX_CODE_POINT THEN MAX_CODE_POINT + 1 ELSE n
         IN  capped(16 * HexadecimalValue(SubSeq(t, 1, Len(t) - 1))
                    + (IF t[Len(t)] <= NINE THEN t[Len(t)] - ZERO
                       ELSE IF t[Len(t)] <= UF THEN t[Len(t)] - UA + 10
                       ELSE t[Len(t)] - LA + 10))

IsScalarValue(n) == n <= MAX_CODE_POINT /\ ~(n >= SURROGATE_FIRST /\ n <= SURROGATE_LAST)

C20_UnicodeEscape ==
    op = "unicode" =>
        LET close == FindChar(input, at, RBRACE)
            content == Sub(input, at + 1, close)
            wellformed ==
                /\ Committed(LBRACE)
                /\ close >= 0
                /\ Len(content) >= 2
                /\ Len(content) <= 8
                /\ \A i \in 1..Len(content) : IsHexDigit(content[i])
                /\ IsScalarValue(HexadecimalValue(content))
        IN  IF wellformed THEN res = Ok(close + 1, HexadecimalValue(content))
            ELSE ~res.ok

----------------------------------------------------------------------------
(* C21.  take_unicode classifies every failure as exactly one fatal        *)
(* sub-error, checked in this order: no "{" next: MissingOpeningBracket    *)
(* with a one-character span at that position; no "}" later in the input:  *)
(* MissingClosingBracket spanning from after the "{" to the end of the     *)
(* input; content length outside [2,8]: InvalidCodeLength; content not     *)
(* hexadecimal: InvalidHexadecimal; value not a Unicode scalar:            *)
(* InvalidCodePoint; the last three span exactly the content between the   *)
(* braces.                                                                 *)

C21_UnicodeFailureClasses ==
    (op = "unicode" /\ ~res.ok) =>
        LET close == FindChar(input, at, RBRACE)
            content == Sub(input, at + 1, close)
        IN  IF ~Committed(LBRACE)
            THEN res = Failure("InvalidUnicode.MissingOpeningBracket", NUL, at, at + 1)
            ELSE IF close < 0
            THEN res = Failure("InvalidUnicode.MissingClosingBracket", NUL,
                               at + 1, Len(input))
            ELSE IF Len(content) < 2 \/ Len(content) > 8
            THEN res = Failure("InvalidUnicode.InvalidCodeLength", NUL, at + 1, close)
            ELSE IF \E i \in 1..Len(content) : ~IsHexDigit(content[i])
            THEN res = Failure("InvalidUnicode.InvalidHexadecimal", NUL, at + 1, close)
            ELSE res = Failure("InvalidUnicode.InvalidCodePoint", NUL, at + 1, close)

----------------------------------------------------------------------------
(* C22.  After take_numeric_key has consumed "[": if no "]" occurs in the  *)
(* remaining input it fails fatally with MissingClosingBracket whose span  *)
(* is the single "[" character; if the text before the next "]" is not a   *)
(* number it fails fatally with NotANumber whose span covers exactly the   *)
(* text strictly between the brackets.                                     *)

C22_NumericKeyFailures ==
    (op = "numeric_key" /\ Committed(LBRACK)) =>
        LET close == FindChar(input, at + 1, RBRACK)
            content == Sub(input, at + 1, close)
        IN  IF close < 0
            THEN res = Failure("MissingClosingBracket", NUL, at, at + 1)
            ELSE IF content = <<>> \/ \E i \in 1..Len(content) : ~IsDigit(content[i])
            THEN res = Failure("NotANumber", NUL, at + 1, close)
            ELSE res.ok

----------------------------------------------------------------------------
(* C23.  For every finite input the loops terminate: each iteration of the *)
(* character-scan loop, of the key loop and of the interpolator's segment  *)
(* loop either consumes at least one character of the remaining input or   *)
(* ends the loop, with a result or an error, so the remaining input        *)
(* strictly shrinks across iterations.                                     *)

\* an iteration that leaves the loop running consumed some of the input
Consumes == (op = "running" /\ op' = "running") => (at < at' /\ at' <= Len(input))

\* what the whole loop leaves, from the start of the input
LoopResult ==
    IF ctx \in ScanContexts
    THEN take_string_with_escape_until(input, 0, Cond(ctx), Reserved(ctx))
    ELSE IF ctx = "keys" THEN key_loop(input, 0, <<>>)
    ELSE take_spanned_string_interpolator(input)

\* the iteration a running loop is about to make
ThisIteration ==
    IF ctx \in ScanContexts
    THEN scan_iteration(input, at, res.val, Cond(ctx), Reserved(ctx))
    ELSE IF ctx = "keys" THEN key_iteration(input, at, res.val)
    ELSE segment_iteration(input, at, res.val.segments)

\* the iteration of a running loop ends the loop or goes on further in the input
Advances ==
    op = "running" =>
        LET ahead(st) == st.running => (at < st.res.rest /\ st.res.rest <= Len(input))
        IN  ahead(ThisIteration)

C23_LoopsTerminate ==
    /\ []Advances
    /\ [][Consumes]_vars
    /\ [](op = "done" => res = LoopResult)
    /\ <>(op = "done")

\* a segment loop that ended after two iterations that pushed a segment
C23_Witness ==
    /\ op = "done"
    /\ ctx = "segments"
    /\ res.ok
    /\ Len(res.val.segments) = 2

----------------------------------------------------------------------------
(* C24.  When the scanner meets a backslash that is the last character of  *)
(* its input, and backslash is not in the reserved set, it does not fail:  *)
(* the escape branch yields a soft error, the plain-character branch takes *)
(* the same backslash, and the backslash is appended literally to the      *)
(* decoded text.  So on a text ending in a single unpaired backslash       *)
(* take_spanned_string_interpolator does what it does on the text before   *)
(* that backslash, and where that succeeds it succeeds with the same       *)
(* segments and with a postfix that is the other postfix followed by the   *)
(* backslash.                                                              *)

\* the number of backslashes the text ends with
RECURSIVE TrailingBackslashes(_)
TrailingBackslashes(s) ==
    IF s = <<>> \/ s[Len(s)] # BSLASH THEN 0
    ELSE 1 + TrailingBackslashes(SubSeq(s, 1, Len(s) - 1))

\* the text ends in a backslash that is not the second character of "\\"
EndsUnpaired(s) == TrailingBackslashes(s) % 2 = 1

\* the scanner is at a backslash that nothing follows
AtLastBackslash ==
    /\ op = "running"
    /\ ctx \in ScanContexts
    /\ BSLASH \notin Reserved(ctx)
    /\ at = Len(input) - 1
    /\ input[Len(input)] = BSLASH

============================================================================
